---- MODULE Spec2Model ----
(***************************************************************************)
(* Salon reservation API (src/main.py): the create, modify and cancel      *)
(* handlers over the salon_reservations table.  Every store round-trip of  *)
(* a handler is one step, so that requests may interleave between the      *)
(* conflict check and the following write.                                 *)
(***************************************************************************)
EXTENDS Integers, Sequences, FiniteSets, TLC

VARIABLES table, pc, req, loc, response, nreq

vars == <<table, pc, req, loc, response, nreq>>

(* ---------------------------------------------------------------- bounds *)
MaxReqs == 4

MaxRes == 2

(* ------------------------------------------------------------- constants *)
DEFAULT_DURATION_MINUTES == 60

SCHEDULED == "scheduled"
COMPLETED == "completed"
CANCELLED == "cancelled"

HTTP_200_OK == 200
HTTP_201_CREATED == 201
HTTP_404_NOT_FOUND == 404
HTTP_409_CONFLICT == 409
HTTP_422_UNPROCESSABLE == 422
HTTP_500_INTERNAL_SERVER_ERROR == 500

(* --------------------------------------------------------- input domains *)
Procs == {"r1", "r2"}
Stylists == {"Kim", "Lee"}
Dates == {1}
Times == {9, 10}
Null == "null"
NoId == 0
NoResponse == 0

(* date.strftime("%Y-%m-%d") and time.strftime("%H:%M:%S") *)
Pad2(n) == IF n < 10 THEN "0" \o ToString(n) ELSE ToString(n)

date_strftime(d) == "2025-06-" \o Pad2(d)

time_strftime(t) == Pad2(t) \o ":00:00"

(* date.fromisoformat and time.fromisoformat on the stored strings *)
date_fromisoformat(s) == CHOOSE d \in 1..30 : date_strftime(d) = s

time_fromisoformat(s) == CHOOSE t \in 0..23 : time_strftime(t) = s

(* ------------------------------------------------------- request bodies *)
CreateBody(s, d, t) ==
    [customer_name |-> "Ann", phone_number |-> "555",
     reservation_date |-> d, reservation_time |-> t,
     stylist_name |-> s, service_menu |-> "cut"]

CreateBodies ==
    {IF s = "Lee" /\ t = 10
     THEN [phone_number |-> "777"] @@ CreateBody(s, d, t)
     ELSE CreateBody(s, d, t) : s \in Stylists, d \in Dates, t \in Times}
    \cup {CreateBody("Kim", 1, 9) @@ [duration_minutes |-> 0]}

UpdateBodies ==
    {[reservation_time |-> t] : t \in Times}
    \cup {[stylist_name |-> s] : s \in Stylists}
    \cup {[duration_minutes |-> 0],
          [service_menu |-> "color", duration_minutes |-> 30],
          [reservation_date |-> 1, notes |-> "short", customer_name |-> "Bob"]}

(* ------------------------------------------------------ pydantic models *)
UpdateFields ==
    {"reservation_date", "reservation_time", "stylist_name",
     "service_menu", "duration_minutes", "notes"}

(* ReservationCreate: defaults filled, duration validated *)
ReservationCreate(body) ==
    [customer_name |-> body.customer_name,
     phone_number |-> body.phone_number,
     reservation_date |-> body.reservation_date,
     reservation_time |-> body.reservation_time,
     stylist_name |-> body.stylist_name,
     service_menu |-> body.service_menu,
     duration_minutes |-> IF "duration_minutes" \in DOMAIN body
                          THEN body.duration_minutes
                          ELSE DEFAULT_DURATION_MINUTES,
     notes |-> IF "notes" \in DOMAIN body THEN body.notes ELSE Null]

CreateValid(body) == ReservationCreate(body).duration_minutes > 0

(* An update model that keeps every field of the body. *)
ReservationUpdate_extra_allowed(body) == body

(* ReservationUpdate: only the six declared fields exist; a field that is  *)
(* not in the domain is None.                                              *)
ReservationUpdate(body) ==
    [f \in (DOMAIN body) \cap UpdateFields |-> body[f]]

(* An update model without the duration validator. *)
UpdateValid_no_validator(body) == TRUE

UpdateValid(body) ==
    "duration_minutes" \in DOMAIN ReservationUpdate(body)
        => ReservationUpdate(body).duration_minutes > 0

(* ----------------------------------------------------------------- store *)
Ids(tbl) == 1..Len(tbl)

(* The select without the filter on reservation_id. *)
select_by_id_unfiltered(tbl, id) == Ids(tbl)

select_by_id(tbl, id) == {i \in Ids(tbl) : tbl[i].reservation_id = id}

store_insert(tbl, data) ==
    Append(tbl, data @@ [reservation_id |-> Len(tbl) + 1])

store_update(tbl, id, data) ==
    [i \in Ids(tbl) |->
        IF tbl[i].reservation_id = id
        THEN [f \in DOMAIN tbl[i] |->
                 IF f \in DOMAIN data THEN data[f] ELSE tbl[i][f]]
        ELSE tbl[i]]

(* The conflict query without the status filter: cancelled rows block too. *)
check_availability_conflict_any_status(tbl, stylist_name, reservation_date, reservation_time, exclude_id) ==
    LET result == {i \in Ids(tbl) :
                     /\ tbl[i].stylist_name = stylist_name
                     /\ tbl[i].reservation_date = date_strftime(reservation_date)
                     /\ tbl[i].reservation_time = time_strftime(reservation_time)
                     /\ (exclude_id # NoId => tbl[i].reservation_id # exclude_id)}
    IN  Cardinality(result) > 0

(* The conflict query without the stylist filter. *)
check_availability_conflict_any_stylist(tbl, stylist_name, reservation_date, reservation_time, exclude_id) ==
    LET result == {i \in Ids(tbl) :
                     /\ tbl[i].reservation_date = date_strftime(reservation_date)
                     /\ tbl[i].reservation_time = time_strftime(reservation_time)
                     /\ tbl[i].status = SCHEDULED
                     /\ (exclude_id # NoId => tbl[i].reservation_id # exclude_id)}
    IN  Cardinality(result) > 0

(* The conflict query that never excludes the reservation being modified. *)
check_availability_conflict_no_exclude(tbl, stylist_name, reservation_date, reservation_time, exclude_id) ==
    LET result == {i \in Ids(tbl) :
                     /\ tbl[i].stylist_name = stylist_name
                     /\ tbl[i].reservation_date = date_strftime(reservation_date)
                     /\ tbl[i].reservation_time = time_strftime(reservation_time)
                     /\ tbl[i].status = SCHEDULED}
    IN  Cardinality(result) > 0

(* The conflict query that reports a conflict only from two matches on. *)
check_availability_conflict_two(tbl, stylist_name, reservation_date, reservation_time, exclude_id) ==
    LET result == {i \in Ids(tbl) :
                     /\ tbl[i].stylist_name = stylist_name
                     /\ tbl[i].reservation_date = date_strftime(reservation_date)
                     /\ tbl[i].reservation_time = time_strftime(reservation_time)
                     /\ tbl[i].status = SCHEDULED
                     /\ (exclude_id # NoId => tbl[i].reservation_id # exclude_id)}
    IN  Cardinality(result) > 1

check_availability_conflict(tbl, stylist_name, reservation_date, reservation_time, exclude_id) ==
    LET result == {i \in Ids(tbl) :
                     /\ tbl[i].stylist_name = stylist_name
                     /\ tbl[i].reservation_date = date_strftime(reservation_date)
                     /\ tbl[i].reservation_time = time_strftime(reservation_time)
                     /\ tbl[i].status = SCHEDULED
                     /\ (exclude_id # NoId => tbl[i].reservation_id # exclude_id)}
    IN  Cardinality(result) > 0

(* ------------------------------------------------------- handler helpers *)
reservation_data(r) ==
    [customer_name |-> r.customer_name,
     phone_number |-> r.phone_number,
     reservation_date |-> date_strftime(r.reservation_date),
     reservation_time |-> time_strftime(r.reservation_time),
     stylist_name |-> r.stylist_name,
     service_menu |-> r.service_menu,
     duration_minutes |-> r.duration_minutes,
     status |-> SCHEDULED,
     notes |-> r.notes]

(* An update set that also writes the status column. *)
update_data_with_status(updates) ==
    [f \in (DOMAIN updates) \cup {"status"} |->
        IF f = "status" THEN SCHEDULED
        ELSE IF f = "reservation_date" THEN date_strftime(updates[f])
        ELSE IF f = "reservation_time" THEN time_strftime(updates[f])
        ELSE updates[f]]

(* An update set that projects notes whether or not the request has it. *)
update_data_notes_always(updates) ==
    [f \in (DOMAIN updates) \cup {"notes"} |->
        IF f \notin DOMAIN updates THEN Null
        ELSE IF f = "reservation_date" THEN date_strftime(updates[f])
        ELSE IF f = "reservation_time" THEN time_strftime(updates[f])
        ELSE updates[f]]

update_data(updates) ==
    [f \in DOMAIN updates |->
        IF f = "reservation_date" THEN date_strftime(updates[f])
        ELSE IF f = "reservation_time" THEN time_strftime(updates[f])
        ELSE updates[f]]

check_stylist(data, existing_record) ==
    IF "stylist_name" \in DOMAIN data
    THEN data.stylist_name ELSE existing_record.stylist_name

check_date(data, existing_record) ==
    date_fromisoformat(IF "reservation_date" \in DOMAIN data
                       THEN data.reservation_date
                       ELSE existing_record.reservation_date)

(* A check time that is always the stored one, whatever the update says. *)
check_time_stored_only(data, existing_record) ==
    time_fromisoformat(existing_record.reservation_time)

check_time(data, existing_record) ==
    time_fromisoformat(IF "reservation_time" \in DOMAIN data
                       THEN data.reservation_time
                       ELSE existing_record.reservation_time)

NoReq == [op |-> "none"]
NoLocals == [none |-> TRUE]

Idle(p) == pc[p] = "idle"

Finish(p, code) ==
    /\ pc' = [pc EXCEPT ![p] = "idle"]
    /\ req' = [req EXCEPT ![p] = NoReq]
    /\ loc' = [loc EXCEPT ![p] = NoLocals]
    /\ response' = code

(* ---------------------------------------------------------------- Init *)
Init ==
    /\ table = << >>
    /\ pc = [p \in Procs |-> "idle"]
    /\ req = [p \in Procs |-> NoReq]
    /\ loc = [p \in Procs |-> NoLocals]
    /\ response = NoResponse
    /\ nreq = 0

(* ------------------------------------------------------ request arrival *)
Receive(p, r) ==
    /\ Idle(p)
    /\ nreq < MaxReqs
    /\ nreq' = nreq + 1
    /\ pc' = [pc EXCEPT ![p] = "recv"]
    /\ req' = [req EXCEPT ![p] = r]
    /\ UNCHANGED <<table, loc, response>>

post_add(p) ==
    /\ Len(table) + Cardinality({q \in Procs : req[q].op = "create"}) < MaxRes
    /\ \E body \in CreateBodies : Receive(p, [op |-> "create", body |-> body])

put_modify(p) ==
    \E id \in 1..(Len(table) + 1), body \in UpdateBodies :
        Receive(p, [op |-> "modify", id |-> id, body |-> body])

delete_cancel(p) ==
    \E id \in 1..(Len(table) + 1) :
        Receive(p, [op |-> "cancel", id |-> id])

(* ---------------------------------------------------- create_reservation *)
create_check(p) ==
    /\ pc[p] = "recv" /\ req[p].op = "create"
    /\ UNCHANGED <<table, nreq>>
    /\ IF ~CreateValid(req[p].body)
       THEN Finish(p, HTTP_422_UNPROCESSABLE)
       ELSE LET reservation == ReservationCreate(req[p].body) IN
            IF check_availability_conflict(table, reservation.stylist_name,
                   reservation.reservation_date, reservation.reservation_time, NoId)
            THEN Finish(p, HTTP_409_CONFLICT)
            ELSE /\ pc' = [pc EXCEPT ![p] = "insert"]
                 /\ UNCHANGED <<req, loc, response>>

(* An insert that repeats the conflict query in the same store operation. *)
create_insert_atomic(p) ==
    /\ pc[p] = "insert"
    /\ UNCHANGED nreq
    /\ LET reservation == ReservationCreate(req[p].body) IN
       IF check_availability_conflict(table, reservation.stylist_name,
              reservation.reservation_date, reservation.reservation_time, NoId)
       THEN table' = table /\ Finish(p, HTTP_409_CONFLICT)
       ELSE /\ table' = store_insert(table, reservation_data(reservation))
            /\ Finish(p, HTTP_201_CREATED)

create_insert(p) ==
    /\ pc[p] = "insert"
    /\ table' = store_insert(table, reservation_data(ReservationCreate(req[p].body)))
    /\ Finish(p, HTTP_201_CREATED)
    /\ UNCHANGED nreq

(* ---------------------------------------------------- modify_reservation *)
(* A modify that sends its update before the conflict check. *)
modify_select_write_first(p) ==
    /\ pc[p] = "recv" /\ req[p].op = "modify"
    /\ UNCHANGED nreq
    /\ IF ~UpdateValid(req[p].body)
       THEN table' = table /\ Finish(p, HTTP_422_UNPROCESSABLE)
       ELSE LET existing == select_by_id(table, req[p].id) IN
            IF existing = {}
            THEN table' = table /\ Finish(p, HTTP_404_NOT_FOUND)
            ELSE LET existing_record == table[CHOOSE i \in existing : TRUE]
                     data == update_data(ReservationUpdate(req[p].body))
                 IN  /\ table' = store_update(table, req[p].id, data)
                     /\ loc' = [loc EXCEPT ![p] =
                           [update_data |-> data,
                            check_stylist |-> check_stylist(data, existing_record),
                            check_date |-> check_date(data, existing_record),
                            check_time |-> check_time(data, existing_record)]]
                     /\ pc' = [pc EXCEPT ![p] = "modify_check"]
                     /\ UNCHANGED <<req, response>>

modify_select(p) ==
    /\ pc[p] = "recv" /\ req[p].op = "modify"
    /\ UNCHANGED <<table, nreq>>
    /\ IF ~UpdateValid(req[p].body)
       THEN Finish(p, HTTP_422_UNPROCESSABLE)
       ELSE LET existing == select_by_id(table, req[p].id) IN
            IF existing = {}
            THEN Finish(p, HTTP_404_NOT_FOUND)
            ELSE LET existing_record == table[CHOOSE i \in existing : TRUE]
                     data == update_data(ReservationUpdate(req[p].body))
                 IN  /\ loc' = [loc EXCEPT ![p] =
                           [update_data |-> data,
                            check_stylist |-> check_stylist(data, existing_record),
                            check_date |-> check_date(data, existing_record),
                            check_time |-> check_time(data, existing_record)]]
                     /\ pc' = [pc EXCEPT ![p] = "modify_check"]
                     /\ UNCHANGED <<req, response>>

modify_check(p) ==
    /\ pc[p] = "modify_check"
    /\ UNCHANGED <<table, nreq>>
    /\ IF check_availability_conflict(table, loc[p].check_stylist,
              loc[p].check_date, loc[p].check_time, req[p].id)
       THEN Finish(p, HTTP_409_CONFLICT)
       ELSE /\ pc' = [pc EXCEPT ![p] = "modify_update"]
            /\ UNCHANGED <<req, loc, response>>

modify_update(p) ==
    /\ pc[p] = "modify_update"
    /\ table' = store_update(table, req[p].id, loc[p].update_data)
    /\ Finish(p, HTTP_200_OK)
    /\ UNCHANGED nreq

(* ---------------------------------------------------- cancel_reservation *)
(* A cancel that treats a reservation that is not scheduled as unknown. *)
cancel_select_scheduled_only(p) ==
    /\ pc[p] = "recv" /\ req[p].op = "cancel"
    /\ UNCHANGED <<table, nreq>>
    /\ IF {i \in select_by_id(table, req[p].id) : table[i].status = SCHEDULED} = {}
       THEN Finish(p, HTTP_404_NOT_FOUND)
       ELSE /\ pc' = [pc EXCEPT ![p] = "cancel_update"]
            /\ UNCHANGED <<req, loc, response>>

cancel_select(p) ==
    /\ pc[p] = "recv" /\ req[p].op = "cancel"
    /\ UNCHANGED <<table, nreq>>
    /\ IF select_by_id(table, req[p].id) = {}
       THEN Finish(p, HTTP_404_NOT_FOUND)
       ELSE /\ pc' = [pc EXCEPT ![p] = "cancel_update"]
            /\ UNCHANGED <<req, loc, response>>

cancel_update(p) ==
    /\ pc[p] = "cancel_update"
    /\ table' = store_update(table, req[p].id, [status |-> CANCELLED])
    /\ Finish(p, HTTP_200_OK)
    /\ UNCHANGED nreq

(* ------------------------------------------------------- specifications *)
Arrive(p) == post_add(p) \/ put_modify(p) \/ delete_cancel(p)

Step(p) ==
    \/ create_check(p) \/ create_insert(p)
    \/ modify_select(p) \/ modify_check(p) \/ modify_update(p)
    \/ cancel_select(p) \/ cancel_update(p)

Next == \E p \in Procs : Arrive(p) \/ Step(p)

Spec == Init /\ [][Next]_vars

(* One request at a time: a request is accepted only when no other request *)
(* is between its first and its last store round-trip.                     *)
AllIdle == \A q \in Procs : Idle(q)

SeqNext == \E p \in Procs : (AllIdle /\ Arrive(p)) \/ Step(p)

SeqSpec == Init /\ [][SeqNext]_vars

(* ---------------------------------------------------- read-only handlers *)
Phones == {"555", "777"}

sorted(s) == SortSeq(s, LAMBDA a, b : a < b)

(* get_all_hours_in_day with the closing hour included *)
get_all_hours_in_day_closing_included == [h \in 1..9 |-> h + 8]

(* range(9, 17) *)
get_all_hours_in_day == [h \in 1..8 |-> h + 8]

(* The availability query without the status filter. *)
availability_select_any_status(tbl, reservation_date, stylist) ==
    SelectSeq(tbl, LAMBDA r :
                 /\ r.stylist_name = stylist
                 /\ r.reservation_date = date_strftime(reservation_date))

(* select("reservation_time").eq(stylist_name).eq(reservation_date).eq(status) *)
availability_select(tbl, reservation_date, stylist) ==
    SelectSeq(tbl, LAMBDA r :
                 /\ r.stylist_name = stylist
                 /\ r.reservation_date = date_strftime(reservation_date)
                 /\ r.status = SCHEDULED)

booked_times(data) ==
    [i \in 1..Len(data) |-> time_fromisoformat(data[i].reservation_time)]

available_times(all_hours, booked) ==
    SelectSeq(all_hours, LAMBDA t : \A i \in 1..Len(booked) : booked[i] # t)

AvailabilityResponse(tbl, reservation_date, stylist) ==
    LET booked == booked_times(availability_select(tbl, reservation_date, stylist))
    IN  [date |-> reservation_date,
         stylist_name |-> stylist,
         booked_slots |-> sorted(booked),
         available_slots |-> sorted(available_times(get_all_hours_in_day, booked))]

(* The lookup query without the status filter. *)
lookup_select_any_status(tbl, phone_number) ==
    {i \in Ids(tbl) : tbl[i].phone_number = phone_number}

(* select("*").eq(phone_number).eq(status) *)
lookup_select(tbl, phone_number) ==
    {i \in Ids(tbl) : /\ tbl[i].phone_number = phone_number
                      /\ tbl[i].status = SCHEDULED}

(* order("reservation_date").order("reservation_time") *)
OrderedBefore(a, b) ==
    \/ date_fromisoformat(a.reservation_date) < date_fromisoformat(b.reservation_date)
    \/ /\ a.reservation_date = b.reservation_date
       /\ time_fromisoformat(a.reservation_time) <= time_fromisoformat(b.reservation_time)

(* every order of the selected rows the store may return: rows that tie   *)
(* on date and time come in either order                                  *)
lookup_data(tbl, phone_number) ==
    LET rows == lookup_select(tbl, phone_number)
        n == Cardinality(rows)
    IN  {[k \in 1..n |-> tbl[f[k]]] :
            f \in {g \in [1..n -> rows] :
                     /\ \A j, k \in 1..n : j # k => g[j] # g[k]
                     /\ \A j, k \in 1..n :
                           j < k => OrderedBefore(tbl[g[j]], tbl[g[k]])}}

get_availability(p) ==
    \E d \in Dates, s \in Stylists :
        Receive(p, [op |-> "availability", reservation_date |-> d, stylist |-> s])

get_lookup(p) ==
    \E ph \in Phones : Receive(p, [op |-> "lookup", phone_number |-> ph])

check_availability(p) ==
    /\ pc[p] = "recv" /\ req[p].op = "availability"
    /\ loc' = [loc EXCEPT ![p] =
                  AvailabilityResponse(table, req[p].reservation_date, req[p].stylist)]
    /\ pc' = [pc EXCEPT ![p] = "respond"]
    /\ UNCHANGED <<table, nreq, req, response>>

lookup_reservations(p) ==
    /\ pc[p] = "recv" /\ req[p].op = "lookup"
    /\ UNCHANGED <<table, nreq>>
    /\ \E data \in lookup_data(table, req[p].phone_number) :
          IF Len(data) = 0
          THEN Finish(p, HTTP_404_NOT_FOUND)
          ELSE /\ loc' = [loc EXCEPT ![p] = [reservations |-> data]]
               /\ pc' = [pc EXCEPT ![p] = "respond"]
               /\ UNCHANGED <<req, response>>

(* the handler returns its response model *)
respond(p) ==
    /\ pc[p] = "respond"
    /\ Finish(p, HTTP_200_OK)
    /\ UNCHANGED <<table, nreq>>

Query(p) ==
    \/ get_availability(p) \/ get_lookup(p)
    \/ check_availability(p) \/ lookup_reservations(p) \/ respond(p)

ReadNext == \E p \in Procs : Arrive(p) \/ Step(p) \/ Query(p)

ReadSpec == Init /\ [][ReadNext]_vars

(* ------------------------------------------------------ time validators *)
(* A time string is the sequence of its characters.                        *)
RawHours == {<<"9">>, <<"0", "9">>, <<"1", "0">>}

RawMinutes == {<<"0", "0">>, <<"3", "0">>}

RawSeconds == {<<"0", "0">>, <<"1", "5">>}

RawTimes ==
    {h \o <<":">> \o m : h \in RawHours, m \in RawMinutes}
    \cup {h \o <<":">> \o m \o <<":">> \o sec :
             h \in RawHours, m \in RawMinutes, sec \in RawSeconds}
    \cup {<<"9">>, <<"9", ":", "3", "0", ":", "1", "5", ":", "0", "0">>}

(* str.split(sep) *)
RECURSIVE split(_, _)
split(v, sep) ==
    IF \A i \in 1..Len(v) : v[i] # sep
    THEN <<v>>
    ELSE LET k == CHOOSE i \in 1..Len(v) :
                     v[i] = sep /\ \A j \in 1..(i - 1) : v[j] # sep
         IN  <<SubSeq(v, 1, k - 1)>> \o split(SubSeq(v, k + 1, Len(v)), sep)

(* str.zfill(width): zeros go after a leading sign *)
RECURSIVE zfill(_, _)
zfill(str, width) ==
    IF Len(str) >= width THEN str
    ELSE IF Len(str) > 0 /\ str[1] \in {"+", "-"}
         THEN zfill(<<str[1], "0">> \o Tail(str), width)
         ELSE zfill(<<"0">> \o str, width)

(* A validator that pads the hour only when the seconds are omitted. *)
ReservationCreate_normalize_time_pad_short_only(v) ==
    LET parts == split(v, ":") IN
    IF Len(parts) = 2
    THEN zfill(parts[1], 2) \o <<":">> \o parts[2] \o <<":", "0", "0">>
    ELSE v

ReservationCreate_normalize_time(v) ==
    LET parts == split(v, ":") IN
    IF Len(parts) = 2
    THEN zfill(parts[1], 2) \o <<":">> \o parts[2] \o <<":", "0", "0">>
    ELSE IF Len(parts) = 3
         THEN zfill(parts[1], 2) \o <<":">> \o parts[2] \o <<":">> \o parts[3]
         ELSE v

ReservationUpdate_normalize_time(v) ==
    LET parts == split(v, ":") IN
    IF Len(parts) = 2
    THEN zfill(parts[1], 2) \o <<":">> \o parts[2] \o <<":", "0", "0">>
    ELSE IF Len(parts) = 3
         THEN zfill(parts[1], 2) \o <<":">> \o parts[2] \o <<":">> \o parts[3]
         ELSE v

(* The validation layer on its own: each request carries a raw             *)
(* reservation_time; the validator of its model normalizes it.             *)
NormInit ==
    /\ table = << >>
    /\ pc = [p \in Procs |-> "raw"]
    /\ req \in [Procs -> {[op |-> o, reservation_time |-> v] :
                            o \in {"create", "modify"}, v \in RawTimes}]
    /\ loc = [p \in Procs |-> NoLocals]
    /\ response = NoResponse
    /\ nreq = 0

normalize_time(p) ==
    /\ pc[p] = "raw"
    /\ loc' = [loc EXCEPT ![p] =
                  [reservation_time |->
                      IF req[p].op = "create"
                      THEN ReservationCreate_normalize_time(req[p].reservation_time)
                      ELSE ReservationUpdate_normalize_time(req[p].reservation_time)]]
    /\ pc' = [pc EXCEPT ![p] = "normalized"]
    /\ UNCHANGED <<table, req, response, nreq>>

(* the client sends the normalized string back as the next raw value *)
resend_normalized(p) ==
    /\ pc[p] = "normalized"
    /\ loc[p].reservation_time # req[p].reservation_time
    /\ req' = [req EXCEPT ![p].reservation_time = loc[p].reservation_time]
    /\ loc' = [loc EXCEPT ![p] = NoLocals]
    /\ pc' = [pc EXCEPT ![p] = "raw"]
    /\ UNCHANGED <<table, response, nreq>>

NormNext == \E p \in Procs : normalize_time(p) \/ resend_normalized(p)

NormSpec == NormInit /\ [][NormNext]_vars

(* ------------------------------------------------------- store failures *)
(* A query of the store raises: the except clause of the handler, or of    *)
(* check_availability_conflict, turns it into a 500.                       *)
store_read_fails(p) ==
    /\ \/ pc[p] = "recv" /\ req[p].op = "create" /\ CreateValid(req[p].body)
       \/ pc[p] = "recv" /\ req[p].op = "modify" /\ UpdateValid(req[p].body)
       \/ pc[p] = "recv" /\ req[p].op = "cancel"
       \/ pc[p] = "modify_check"
    /\ Finish(p, HTTP_500_INTERNAL_SERVER_ERROR)
    /\ UNCHANGED <<table, nreq>>

(* The insert or update raises, or returns no row: the store has either    *)
(* not applied the statement or applied it and lost the answer.            *)
store_write_fails(p) ==
    /\ pc[p] \in {"insert", "modify_update", "cancel_update"}
    /\ \/ table' = table
       \/ /\ pc[p] = "insert"
          /\ table' = store_insert(table, reservation_data(ReservationCreate(req[p].body)))
       \/ /\ pc[p] = "modify_update"
          /\ table' = store_update(table, req[p].id, loc[p].update_data)
       \/ /\ pc[p] = "cancel_update"
          /\ table' = store_update(table, req[p].id, [status |-> CANCELLED])
    /\ Finish(p, HTTP_500_INTERNAL_SERVER_ERROR)
    /\ UNCHANGED nreq

FailNext ==
    \E p \in Procs :
        Arrive(p) \/ Step(p) \/ store_read_fails(p) \/ store_write_fails(p)

FailSpec == Init /\ [][FailNext]_vars

(* ==================================================================== *)
(* Properties                                                           *)
(* ==================================================================== *)
Triple(row) == <<row.stylist_name, row.reservation_date, row.reservation_time>>

BodyTriple(body) ==
    <<body.stylist_name, date_strftime(body.reservation_date),
      time_strftime(body.reservation_time)>>

(* the slot fields of a modify body merged over a stored row *)
MergedTriple(body, row) ==
    <<IF "stylist_name" \in DOMAIN body THEN body.stylist_name
      ELSE row.stylist_name,
      IF "reservation_date" \in DOMAIN body
      THEN date_strftime(body.reservation_date) ELSE row.reservation_date,
      IF "reservation_time" \in DOMAIN body
      THEN time_strftime(body.reservation_time) ELSE row.reservation_time>>

(* the value a modify body stores in column f *)
Stored(f, v) ==
    IF f = "reservation_date" THEN date_strftime(v)
    ELSE IF f = "reservation_time" THEN time_strftime(v)
    ELSE v

ScheduledAt(tbl, tr) ==
    {i \in Ids(tbl) : tbl[i].status = SCHEDULED /\ Triple(tbl[i]) = tr}

DoubleBooked(tbl) ==
    \E i, j \in Ids(tbl) :
        /\ i # j
        /\ tbl[i].status = SCHEDULED /\ tbl[j].status = SCHEDULED
        /\ Triple(tbl[i]) = Triple(tbl[j])

DurationOk(body) ==
    "duration_minutes" \in DOMAIN body => body.duration_minutes > 0

Leaves(p, at) == pc[p] = at /\ pc'[p] # at

OthersUnchanged(id) ==
    /\ Len(table') = Len(table)
    /\ \A i \in Ids(table) : i # id => table'[i] = table[i]

(* C1: when requests run one at a time, no two scheduled reservations     *)
(* share a (stylist, date, time) triple in any reachable store state.     *)
C1_NoDoubleBooking == ~DoubleBooked(table)

(* two scheduled reservations of one stylist on one date, at two times *)
C1_Witness ==
    /\ Len(table) = 2
    /\ \A i \in Ids(table) : table[i].status = SCHEDULED
    /\ table[1].stylist_name = table[2].stylist_name
    /\ table[1].reservation_date = table[2].reservation_date

(* C2: with the check and the write as separate interleavable steps, a    *)
(* request that has passed its conflict check performs its write and      *)
(* succeeds whatever has been written in between, so two requests for one *)
(* free slot both succeed and a double-booked state is reached.           *)
C2_WriteAfterCheckUnconditional ==
    [][\A p \in Procs :
          /\ Leaves(p, "insert") =>
                /\ response' = HTTP_201_CREATED
                /\ Len(table') = Len(table) + 1
                /\ table'[Len(table')].status = SCHEDULED
                /\ Triple(table'[Len(table')]) = BodyTriple(req[p].body)
          /\ Leaves(p, "modify_update") =>
                /\ response' = HTTP_200_OK
                /\ Triple(table'[req[p].id]) =
                      MergedTriple(req[p].body, table[req[p].id])]_vars

C2_Witness == DoubleBooked(table)

(* C3: run one at a time, a create for a triple held by a scheduled       *)
(* reservation is rejected as a conflict; when no scheduled reservation   *)
(* holds the triple (cancelled ones do not count) the create succeeds and *)
(* yields a new scheduled reservation on that triple.                     *)
C3_CreateAfterCancel ==
    [][\A p \in Procs :
          /\ (Leaves(p, "recv") /\ req[p].op = "create"
              /\ DurationOk(req[p].body)) =>
                IF ScheduledAt(table, BodyTriple(req[p].body)) # {}
                THEN /\ response' = HTTP_409_CONFLICT
                     /\ pc'[p] = "idle"
                     /\ table' = table
                ELSE pc'[p] = "insert" /\ table' = table
          /\ Leaves(p, "insert") =>
                /\ ScheduledAt(table, BodyTriple(req[p].body)) = {}
                /\ response' = HTTP_201_CREATED
                /\ ScheduledAt(table', BodyTriple(req[p].body))
                      = {Len(table) + 1}]_vars

(* a create has succeeded on the triple of a cancelled reservation *)
C3_Witness ==
    /\ response = HTTP_201_CREATED
    /\ \E i, j \in Ids(table) :
          /\ i < j
          /\ table[i].status = CANCELLED /\ table[j].status = SCHEDULED
          /\ Triple(table[i]) = Triple(table[j])

(* C4: run one at a time, a create, or a modify of a stored reservation,  *)
(* whose resulting triple is held by a different scheduled reservation is *)
(* answered 409 and leaves the table unchanged; otherwise its write is    *)
(* performed: the row is inserted, or the row carries the merged triple.  *)
C4_ConflictRejectedElseWritten ==
    [][\A p \in Procs :
          /\ (Leaves(p, "recv") /\ req[p].op = "create"
              /\ DurationOk(req[p].body)) =>
                IF ScheduledAt(table, BodyTriple(req[p].body)) # {}
                THEN response' = HTTP_409_CONFLICT /\ pc'[p] = "idle"
                ELSE pc'[p] = "insert"
          /\ Leaves(p, "modify_check") =>
                IF ScheduledAt(table, MergedTriple(req[p].body, table[req[p].id]))
                      \ {req[p].id} # {}
                THEN response' = HTTP_409_CONFLICT /\ pc'[p] = "idle"
                ELSE pc'[p] = "modify_update"
          /\ (Leaves(p, "recv") \/ Leaves(p, "modify_check")) => table' = table
          /\ Leaves(p, "insert") =>
                /\ response' = HTTP_201_CREATED
                /\ SubSeq(table', 1, Len(table)) = table
                /\ Len(table') = Len(table) + 1
                /\ Triple(table'[Len(table')]) = BodyTriple(req[p].body)
          /\ Leaves(p, "modify_update") =>
                /\ response' = HTTP_200_OK
                /\ OthersUnchanged(req[p].id)
                /\ Triple(table'[req[p].id]) =
                      MergedTriple(req[p].body, table[req[p].id])]_vars

(* a modify was rejected and both reservations are still as created *)
C4_Witness ==
    /\ response = HTTP_409_CONFLICT
    /\ Len(table) = 2
    /\ \A i \in Ids(table) : table[i].status = SCHEDULED
    /\ AllIdle

(* the triple a modify request is about to check equals the current      *)
(* triple of the reservation it modifies                                  *)
ChecksOwnSlot(p) ==
    /\ pc[p] \in {"modify_check", "modify_update"}
    /\ <<loc[p].check_stylist, date_strftime(loc[p].check_date),
         time_strftime(loc[p].check_time)>> = Triple(table[req[p].id])

(* C5 as stated: in every reachable state, a modify of a stored           *)
(* reservation R whose resulting triple is R's own current triple passes  *)
(* the conflict check.                                                    *)
C5_SelfSlotAlwaysPasses ==
    [][\A p \in Procs :
          (Leaves(p, "modify_check") /\ ChecksOwnSlot(p))
              => pc'[p] = "modify_update"]_vars

(* C5 amended: a modify of R onto R's own current triple is never         *)
(* rejected because of R itself; it is answered 409 exactly when a        *)
(* different scheduled reservation holds that triple, and passes the      *)
(* check otherwise.                                                       *)
C5_SelfSlotPassesUnlessOtherHolder ==
    [][\A p \in Procs :
          (Leaves(p, "modify_check") /\ ChecksOwnSlot(p)) =>
              IF ScheduledAt(table, Triple(table[req[p].id])) \ {req[p].id} = {}
              THEN pc'[p] = "modify_update"
              ELSE pc'[p] = "idle" /\ response' = HTTP_409_CONFLICT]_vars

(* a scheduled reservation has passed the check on its own slot *)
C5_Witness ==
    \E p \in Procs :
        /\ pc[p] = "modify_update"
        /\ ChecksOwnSlot(p)
        /\ table[req[p].id].status = SCHEDULED

(* C6: a reservation enters the table scheduled, a step changes a status  *)
(* only from scheduled to cancelled, and no reservation is ever           *)
(* completed, however the requests interleave.                            *)
C6_StatusOneWay ==
    [][/\ \A i \in Ids(table) :
             /\ i \in Ids(table')
             /\ \/ table'[i].status = table[i].status
                \/ table[i].status = SCHEDULED /\ table'[i].status = CANCELLED
       /\ \A i \in Ids(table') \ Ids(table) : table'[i].status = SCHEDULED
       /\ \A i \in Ids(table') : table'[i].status # COMPLETED]_vars

(* a cancelled reservation that a later modify has written to *)
C6_Witness ==
    \E i \in Ids(table) :
        /\ table[i].status = CANCELLED
        /\ table[i].service_menu = "color"
        /\ response = HTTP_200_OK

(* C7: a modify request writes to a reservation only while it is          *)
(* scheduled; on a cancelled reservation it changes no stored field.      *)
C7_ModifyOnlyWhileScheduled ==
    [][\A p \in Procs :
          (Leaves(p, "modify_update")
           /\ table[req[p].id].status = CANCELLED) => table' = table]_vars

(* C8: the customer name of a stored reservation is the same in every     *)
(* later state, whatever the modify and cancel requests carry.            *)
C8_CustomerNameImmutable ==
    [][\A i \in Ids(table) :
          /\ i \in Ids(table')
          /\ table'[i].customer_name = table[i].customer_name]_vars

(* a modify whose body carried a customer name has been applied *)
C8_Witness ==
    \E i \in Ids(table) :
        /\ table[i].notes = "short"
        /\ table[i].customer_name = "Ann"

(* C9: every stored reservation has a positive duration, and a create or  *)
(* modify request carrying a duration of zero or less is answered 422 in  *)
(* its first step, before any conflict check, with the table unchanged.   *)
C9_DurationPositive ==
    [][/\ \A i \in Ids(table') : table'[i].duration_minutes > 0
       /\ \A p \in Procs :
             (Leaves(p, "recv") /\ req[p].op \in {"create", "modify"}
              /\ ~DurationOk(req[p].body)) =>
                 /\ response' = HTTP_422_UNPROCESSABLE
                 /\ pc'[p] = "idle"
                 /\ table' = table]_vars

(* a request was refused validation while reservations are stored *)
C9_Witness ==
    /\ response = HTTP_422_UNPROCESSABLE
    /\ Len(table) > 0

(* C10: the write of a modify request sets the updatable fields its body  *)
(* carries to the values of the body and keeps every other field of the   *)
(* row (status, phone number, identifier and customer name included) and  *)
(* every other row.                                                       *)
C10_ModifyFrame ==
    [][\A p \in Procs :
          Leaves(p, "modify_update") =>
              /\ response' = HTTP_200_OK
              /\ OthersUnchanged(req[p].id)
              /\ \A f \in DOMAIN table[req[p].id] :
                    table'[req[p].id][f] =
                       IF f \in (DOMAIN req[p].body) \cap UpdateFields
                       THEN Stored(f, req[p].body[f])
                       ELSE table[req[p].id][f]]_vars

(* service and duration were modified, the notes given at creation kept *)
C10_Witness ==
    /\ response = HTTP_200_OK
    /\ \E i \in Ids(table) :
          /\ table[i].service_menu = "color"
          /\ table[i].duration_minutes = 30
          /\ table[i].notes = Null
          /\ table[i].status = SCHEDULED

(* the start hours of the scheduled reservations of a stylist on a date *)
BookedHours(tbl, d, s) ==
    {h \in 0..23 : \E i \in Ids(tbl) :
                      /\ tbl[i].status = SCHEDULED
                      /\ tbl[i].stylist_name = s
                      /\ tbl[i].reservation_date = date_strftime(d)
                      /\ tbl[i].reservation_time = time_strftime(h)}

Range(s) == {s[k] : k \in 1..Len(s)}

Ascending(s) == \A j, k \in 1..Len(s) : j < k => s[j] < s[k]

Answers(p, op) == Leaves(p, "recv") /\ req[p].op = op

(* C11: availability answers, for the date and stylist asked, with the    *)
(* eight hourly slots 09:00..16:00 minus the start hours of that          *)
(* stylist's scheduled reservations on that date, in ascending order and  *)
(* disjoint from booked; durations and cancelled rows play no part.       *)
C11_AvailableSlots ==
    [][\A p \in Procs :
          Answers(p, "availability") =>
              LET r == loc'[p]
                  booked == BookedHours(table, req[p].reservation_date, req[p].stylist)
              IN  /\ pc'[p] = "respond"
                  /\ r.date = req[p].reservation_date
                  /\ r.stylist_name = req[p].stylist
                  /\ Range(r.available_slots) = (9..16) \ booked
                  /\ Ascending(r.available_slots)
                  /\ Range(r.available_slots) \cap Range(r.booked_slots) = {}]_vars

(* seven slots are offered while the stylist has one scheduled and one    *)
(* cancelled reservation that day                                         *)
C11_Witness ==
    \E p \in Procs :
        /\ pc[p] = "respond" /\ req[p].op = "availability"
        /\ Len(loc[p].available_slots) = 7
        /\ Len(table) = 2
        /\ \A i \in Ids(table) : table[i].stylist_name = req[p].stylist
        /\ \E i \in Ids(table) : table[i].status = CANCELLED
        /\ \E i \in Ids(table) : table[i].status = SCHEDULED

(* C12: in every reachable state, interleaved ones included, the booked   *)
(* list of an availability answer is ascending, holds no time twice and   *)
(* holds exactly the start hours of the stylist's scheduled reservations  *)
(* on the date.                                                           *)
C12_BookedSortedDistinct ==
    [][\A p \in Procs :
          Answers(p, "availability") =>
              /\ Ascending(loc'[p].booked_slots)
              /\ Range(loc'[p].booked_slots) =
                    BookedHours(table, req[p].reservation_date, req[p].stylist)]_vars

UnknownId(p) ==
    /\ req[p].op \in {"modify", "cancel"}
    /\ req[p].id \notin {table[i].reservation_id : i \in Ids(table)}

(* C14: a modify or cancel request that names an identifier not in the    *)
(* table is answered 404 with the table unchanged; a modify reaches the   *)
(* conflict check, and can be answered 409, only for a stored identifier. *)
C14_UnknownIdNotFound ==
    [][\A p \in Procs :
          /\ (Leaves(p, "recv") /\ UnknownId(p)
              /\ (req[p].op = "modify" => DurationOk(req[p].body))) =>
                 /\ response' = HTTP_404_NOT_FOUND
                 /\ pc'[p] = "idle"
                 /\ table' = table
          /\ (UnknownId(p) /\ pc'[p] # pc[p]) =>
                 /\ pc'[p] \notin {"modify_check", "modify_update", "cancel_update"}
                 /\ response' # HTTP_409_CONFLICT]_vars

(* an unknown identifier was refused while reservations are stored *)
C14_Witness ==
    /\ response = HTTP_404_NOT_FOUND
    /\ Len(table) > 0

(* C17: a cancel request on a reservation that is already cancelled is    *)
(* not answered 404: it goes on to its update, is answered 200, and the   *)
(* row and the rest of the table are as they were.                        *)
C17_CancelIdempotent ==
    [][\A p \in Procs :
          /\ (Leaves(p, "recv") /\ req[p].op = "cancel" /\ ~UnknownId(p)
              /\ table[req[p].id].status = CANCELLED) =>
                 /\ pc'[p] = "cancel_update"
                 /\ table' = table
          /\ (Leaves(p, "cancel_update")
              /\ table[req[p].id].status = CANCELLED) =>
                 /\ response' = HTTP_200_OK
                 /\ table' = table]_vars

(* a second cancel has found the reservation and is about to write *)
C17_Witness ==
    \E p \in Procs :
        /\ pc[p] = "cancel_update"
        /\ table[req[p].id].status = CANCELLED

Digits == {"0", "1", "2", "3", "4", "5", "6", "7", "8", "9"}

(* the number of hour characters of a string of the shape H:MM, HH:MM,    *)
(* H:MM:SS or HH:MM:SS, and 0 for any other string                        *)
HourLen(v) ==
    LET fits(hl) ==
            /\ Len(v) \in {hl + 3, hl + 6}
            /\ \A i \in 1..Len(v) :
                  IF i \in {hl + 1, hl + 4} THEN v[i] = ":" ELSE v[i] \in Digits
    IN  IF fits(1) THEN 1 ELSE IF fits(2) THEN 2 ELSE 0

(* the zero-padded HH:MM:SS string of a string of that shape *)
Canonical(v) ==
    LET hl == HourLen(v) IN
    [i \in 1..8 |->
        IF i \in {3, 6} THEN ":"
        ELSE IF i = 1 THEN (IF hl = 1 THEN "0" ELSE v[1])
        ELSE IF i = 2 THEN v[hl]
        ELSE IF i \in {4, 5} THEN v[hl + i - 2]
        ELSE IF Len(v) = hl + 6 THEN v[hl + i - 2] ELSE "0"]

Normalized(p) == pc[p] = "normalized" /\ HourLen(req[p].reservation_time) > 0

(* C15: both validators map a string of the shape H:MM, HH:MM, H:MM:SS or *)
(* HH:MM:SS to HH:MM:SS with the hour padded to two digits and seconds 00 *)
(* when omitted; strings that differ only in the padding or in an omitted *)
(* :00 get the same result, and a normalized string is returned as is.    *)
C15_NormalizeTime ==
    /\ \A p \in Procs :
          Normalized(p) =>
             /\ loc[p].reservation_time = Canonical(req[p].reservation_time)
             /\ Len(req[p].reservation_time) = 8
                   => loc[p].reservation_time = req[p].reservation_time
    /\ \A p, q \in Procs :
          (Normalized(p) /\ Normalized(q)
           /\ Canonical(req[p].reservation_time) = Canonical(req[q].reservation_time))
             => loc[p].reservation_time = loc[q].reservation_time

(* "9:30" and "09:30:00" have been normalized, one by each validator *)
C15_Witness ==
    \E p, q \in Procs :
        /\ Normalized(p) /\ Normalized(q)
        /\ req[p].op = "create" /\ req[q].op = "modify"
        /\ req[p].reservation_time = <<"9", ":", "3", "0">>
        /\ req[q].reservation_time = <<"0", "9", ":", "3", "0", ":", "0", "0">>
        /\ loc[p].reservation_time = loc[q].reservation_time

SlotFields == {"stylist_name", "reservation_date", "reservation_time"}

CheckedTriple(p) ==
    <<loc[p].check_stylist, date_strftime(loc[p].check_date),
      time_strftime(loc[p].check_time)>>

(* p and q are past the conflict check of modify requests on the same     *)
(* reservation and update different slot fields                           *)
RacingModifies(p, q) ==
    /\ p # q
    /\ pc[p] = "modify_update" /\ pc[q] = "modify_update"
    /\ req[p].id = req[q].id
    /\ (DOMAIN loc[p].update_data) \cap SlotFields # {}
    /\ (DOMAIN loc[q].update_data) \cap SlotFields # {}
    /\ (DOMAIN loc[p].update_data) \cap (DOMAIN loc[q].update_data) = {}

(* the row after the write of q, the only writer left, on table tbl *)
AfterWriteOf(q, tbl) == store_update(tbl, req[q].id, loc[q].update_data)[req[q].id]

(* C16 as stated: when two modify requests on one reservation interleave  *)
(* and update different slot fields, the triple stored after both writes  *)
(* is a triple that one of the two requests conflict-checked.             *)
C16_FinalTripleWasChecked ==
    [][\A p, q \in Procs :
          (RacingModifies(p, q) /\ Leaves(p, "modify_update")) =>
              Triple(AfterWriteOf(q, table')) \in {CheckedTriple(p), CheckedTriple(q)}]_vars

(* C16 amended: after both writes each of stylist, date and time is the   *)
(* value that one of the two requests conflict-checked for that field;    *)
(* the triple as a whole need not be one that either request checked.     *)
C16_FinalFieldsWereChecked ==
    [][\A p, q \in Procs :
          (RacingModifies(p, q) /\ Leaves(p, "modify_update")) =>
              \A k \in 1..3 :
                  Triple(AfterWriteOf(q, table'))[k]
                      \in {CheckedTriple(p)[k], CheckedTriple(q)[k]}]_vars

(* two racing modifies whose writes together put the reservation on a     *)
(* triple that neither checked and that another scheduled one holds       *)
C16_Witness ==
    \E p, q \in Procs :
        /\ RacingModifies(p, q)
        /\ table[req[p].id].status = SCHEDULED
        /\ LET final == Triple(AfterWriteOf(q,
                            store_update(table, req[p].id, loc[p].update_data)))
           IN  /\ final \notin {CheckedTriple(p), CheckedTriple(q)}
               /\ ScheduledAt(table, final) \ {req[p].id} # {}

WritePcs == {"insert", "modify_update", "cancel_update"}

(* the one write of the request of p has been applied, whole *)
WriteApplied(p) ==
    \/ /\ pc[p] = "insert"
       /\ Len(table') = Len(table) + 1
       /\ SubSeq(table', 1, Len(table)) = table
       /\ LET row == table'[Len(table')]
              body == req[p].body
          IN  /\ Triple(row) = BodyTriple(body)
              /\ row.customer_name = body.customer_name
              /\ row.phone_number = body.phone_number
              /\ row.service_menu = body.service_menu
              /\ row.duration_minutes > 0
              /\ row.status = SCHEDULED
    \/ /\ pc[p] = "modify_update"
       /\ OthersUnchanged(req[p].id)
       /\ \A f \in DOMAIN table[req[p].id] :
             table'[req[p].id][f] =
                IF f \in (DOMAIN req[p].body) \cap UpdateFields
                THEN Stored(f, req[p].body[f])
                ELSE table[req[p].id][f]
    \/ /\ pc[p] = "cancel_update"
       /\ OthersUnchanged(req[p].id)
       /\ table'[req[p].id] = [table[req[p].id] EXCEPT !.status = CANCELLED]

(* C18: with a store that may fail at any round-trip, the table changes   *)
(* only in the last step of a request, after its reads and checks, and    *)
(* then by that request's whole write; a request answered 500 leaves the  *)
(* table unchanged or with its whole write, and leaves nothing behind in  *)
(* the handler state, nor touches the other request in flight.            *)
C18_SingleWriteOrNone ==
    [][/\ table' # table =>
             \E p \in Procs :
                 pc[p] \in WritePcs /\ pc'[p] = "idle" /\ WriteApplied(p)
       /\ \A p \in Procs :
             /\ (pc[p] \in WritePcs /\ pc'[p] # pc[p]) => pc'[p] = "idle"
             /\ (pc[p] # "idle" /\ pc'[p] = "idle"
                 /\ response' = HTTP_500_INTERNAL_SERVER_ERROR) =>
                    /\ table' = table \/ WriteApplied(p)
                    /\ req'[p] = NoReq /\ loc'[p] = NoLocals
                    /\ \A q \in Procs \ {p} :
                          pc'[q] = pc[q] /\ req'[q] = req[q] /\ loc'[q] = loc[q]]_vars

(* the only request so far was answered 500 and its reservation is stored *)
C18_Witness ==
    /\ response = HTTP_500_INTERNAL_SERVER_ERROR
    /\ nreq = 1
    /\ Len(table) = 1

====
